---- MODULE Spec2Model ----
(***************************************************************************)
(* Calendar synchronisation backend (src/backend/index.js) as a state      *)
(* machine.  The server keeps three in-memory maps:                        *)
(*   syncTokens      user    -> continuation token    (Token Ledger)       *)
(*   channelUserMap  channel -> user                  (Subscription Reg.)  *)
(*   sseClients      user    -> open response object  (Live-Update Dir.)   *)
(* A GET /api/events request runs listEvents, which suspends twice: at the *)
(* await of calendar.events.watch and at the await of calendar.events.list.*)
(* Every other handler runs to completion in one step.                     *)
(***************************************************************************)
EXTENDS Integers, Sequences, FiniteSets, TLC

\* ---------------------------------------------------------------- bounds
MaxRequests == 3        \* GET /api/events calls made in one behaviour
MaxLiveRequests == 1    \* the same, in behaviours that also open streams
MaxStreams  == 2        \* GET /api/events/sse connections opened
MaxWrites   == 1        \* wake-up messages written in one behaviour
MaxStart    == 2        \* distinct start instants of calendar events
MaxFetches  == 2        \* fetchEvents runs of the one browser
MaxLedgerStreams == 1   \* streams opened in behaviours of MaxFetches calls

Users == {"u1", "u2"}
NoUser == "none"        \* Map.get(...) === undefined for a user value
NoToken == 0            \* syncTokens has no entry (undefined)
NoStream == 0           \* sseClients has no entry
NoChannel == 0          \* the x-goog-channel-id header is absent

\* uuidv4() values are modelled as 1, 2, ...; one is drawn per listEvents
\* call, and MaxRequests + 1 is an identifier the server never drew
ChannelIds == {NoChannel} \cup (1..MaxRequests + 1)
\* x-goog-channel-id header values: absent, every identifier drawn while
\* streams are open, and one that was never drawn
SignalChannels == {c \in ChannelIds : c <= MaxLiveRequests + 1}
\* x-goog-resource-state header values: the handshake, and "exists" for
\* every change state, which the handler does not tell apart
ResourceStates == {"sync", "exists"}
\* error.code of a rejected googleapis call
ExpiredCode == 410
TransportCodes == {403, 503}
WatchErrorCodes == TransportCodes
ListErrorCodes == TransportCodes \cup {ExpiredCode}

VARIABLES
    syncTokens,      \* [Users -> token], NoToken when absent
    channelUserMap,  \* [ChannelIds -> user], NoUser when absent
    sseClients,      \* [Users -> stream id], NoStream when absent
    streams,         \* sequence of response objects opened by the SSE route
    requests,        \* sequence of /api/events calls, by position in listEvents
    nextToken,       \* next continuation token the external source issues
    notifyAck,       \* outcome of the most recent POST /api/notifications
    expiredLast,     \* per user, the listEvents call that returned last threw on a 410
    closedSinceOpen, \* per user, a stream disconnected after the last open
    lastResponse,    \* the most recent answer of the /api/events route
    loggedOut,       \* per user, logged out and not seen with a session since
    clientEvents,    \* App.jsx `events` state of one browser
    payload,         \* an /api/events answer handed to fetchEvents' continuation
    applied,         \* how many times `payload` has been processed
    baseEvents,      \* `events` before `payload` was first processed
    mergedOnce,      \* `events` after `payload` was first processed
    calendar,        \* per user, the external calendar: event id -> start
    snapshots,       \* by token, the calendar the token was issued for
    inbox,           \* /api/events answers on their way to the browser
    freshApplied     \* the browser has processed an answer to a call that
                     \* began after the latest calendar change

vars == <<syncTokens, channelUserMap, sseClients, streams, requests,
          nextToken, notifyAck, expiredLast, closedSinceOpen, lastResponse,
          loggedOut, clientEvents, payload, applied, baseEvents, mergedOnce,
          calendar, snapshots, inbox, freshApplied>>

worldVars == <<calendar, snapshots, inbox, freshApplied>>

mergeVars == <<clientEvents, payload, applied, baseEvents, mergedOnce>>

\* ------------------------------------------------------- pure code pieces

\* index.js:307-323  if (currentSyncToken) delta else full
FetchKindSwapped(tok) == IF tok # NoToken THEN "full" ELSE "delta"
FetchKind(tok) == IF tok # NoToken THEN "delta" ELSE "full"

\* index.js:310-322  the syncToken parameter of the events.list call
FetchToken(tok) == IF tok # NoToken THEN tok ELSE NoToken

\* index.js:325-329  store nextSyncToken when the response carries one
StoreTokenEveryone(ledger, u, newTok) ==
    IF newTok # NoToken THEN [v \in Users |-> newTok] ELSE ledger
StoreTokenAlways(ledger, u, newTok) == [ledger EXCEPT ![u] = newTok]
StoreToken(ledger, u, newTok) ==
    IF newTok # NoToken THEN [ledger EXCEPT ![u] = newTok] ELSE ledger

\* index.js:336-346  the catch block's effect on the ledger
OnErrorKeep(ledger, u, code) == ledger
OnErrorAlwaysClear(ledger, u, code) == [ledger EXCEPT ![u] = NoToken]
OnErrorLedger(ledger, u, code) ==
    IF code = ExpiredCode THEN [ledger EXCEPT ![u] = NoToken] ELSE ledger

\* index.js:341,344  the error listEvents throws; 410 is replaced by a
\* new Error('Sync token invalid. Please refresh.') which has no code
RefreshError == -1
SurfacedError(code) == IF code = ExpiredCode THEN RefreshError ELSE code

\* index.js:80-95  the response object the notification handler writes to
SseTargetNoSyncCheck(cum, sse, ch, st) ==
    LET userId == cum[ch] IN
    IF userId # NoUser /\ sse[userId] # NoStream THEN sse[userId] ELSE NoStream
SseTargetAnyUser(cum, sse, ch, st) ==
    IF st = "sync" THEN NoStream
    ELSE IF \E u \in Users : sse[u] # NoStream
         THEN sse[CHOOSE u \in Users : sse[u] # NoStream] ELSE NoStream
SseTarget(cum, sse, ch, st) ==
    IF st = "sync" THEN NoStream
    ELSE LET userId == cum[ch] IN
         IF userId # NoUser /\ sse[userId] # NoStream
         THEN sse[userId] ELSE NoStream

RECURSIVE WrittenFrom(_, _)
\* messages written so far to the responses i..Len(strs), welcomes included
WrittenFrom(strs, i) ==
    IF i > Len(strs) THEN 0
    ELSE Len(strs[i].written) + WrittenFrom(strs, i + 1)

\* index.js:92  the bytes written for one wake-up
WakeUpTwice == <<"calendar_update", "calendar_update">>
WakeUp == <<"calendar_update">>

\* index.js:64  sseClients.delete(userId) in the close handler
CloseDirectoryKeep(sse, u) == sse
CloseDirectory(sse, u) == [sse EXCEPT ![u] = NoStream]

\* ------------------------------------------------- client (App.jsx:38-67)
EventIds == {"a", "b"}
NoStart == 0            \* a cancelled item carries no start
Starts == 1..MaxStart
ConfirmedItems == [id : EventIds, start : Starts, status : {"confirmed"}]
CancelledItems == [id : EventIds, start : {NoStart}, status : {"cancelled"}]

\* App.jsx:49,61  new Date(e.start.dateTime || e.start.date), as an instant
StartKey(e) == e.start

RECURSIVE IndexOfId(_, _, _)
\* position of the entry with key id in an insertion-ordered Map, 0 if none
IndexOfId(m, id, i) ==
    IF i > Len(m) THEN 0
    ELSE IF m[i].id = id THEN i ELSE IndexOfId(m, id, i + 1)

\* App.jsx:58  eventMap.set(event.id, event): an existing key keeps its place
MapSetAppend(m, e) == Append(m, e)
MapSet(m, e) ==
    LET i == IndexOfId(m, e.id, 1) IN
    IF i = 0 THEN Append(m, e) ELSE [m EXCEPT ![i] = e]

\* App.jsx:56  eventMap.delete(event.id)
MapDeleteNothing(m, id) == m
MapDelete(m, id) ==
    LET i == IndexOfId(m, id, 1) IN
    IF i = 0 THEN m ELSE SubSeq(m, 1, i - 1) \o SubSeq(m, i + 1, Len(m))

RECURSIVE SeedMap(_, _, _)
\* App.jsx:53  new Map(prevEvents.map(e => [e.id, e]))
SeedMap(m, prev, i) ==
    IF i > Len(prev) THEN m ELSE SeedMap(MapSet(m, prev[i]), prev, i + 1)

RECURSIVE ApplyItems(_, _, _)
\* App.jsx:54-60  eventData.forEach(...)
ApplyItems(m, items, i) ==
    IF i > Len(items) THEN m
    ELSE ApplyItems(IF items[i].status = "cancelled"
                    THEN MapDelete(m, items[i].id)
                    ELSE MapSet(m, items[i]),
                    items, i + 1)

\* one step of a stable sort: e goes behind every element that is not later
InsertSorted(sorted, e) ==
    LET k == Cardinality({i \in 1..Len(sorted) :
                             StartKey(sorted[i]) <= StartKey(e)}) IN
    SubSeq(sorted, 1, k) \o <<e>> \o SubSeq(sorted, k + 1, Len(sorted))

RECURSIVE SortFrom(_, _, _)
SortFrom(sorted, q, i) ==
    IF i > Len(q) THEN sorted
    ELSE SortFrom(InsertSorted(sorted, q[i]), q, i + 1)

\* App.jsx:49,61  Array.prototype.sort((a, b) => start(a) - start(b)), stable
SortByStart(q) == SortFrom(<<>>, q, 1)

\* App.jsx:47-49  full: replace the list
ReplaceFull(items) == SortByStart(items)

\* App.jsx:51-62  delta: merge into the previous list
MergeDelta(prev, items) ==
    SortByStart(ApplyItems(SeedMap(<<>>, prev, 1), items, 1))

\* App.jsx:43-63
ApplyPayloadAlwaysMerge(prev, p) == MergeDelta(prev, p.items)
ApplyPayload(prev, p) ==
    IF p.syncType = "full" THEN ReplaceFull(p.items)
    ELSE MergeDelta(prev, p.items)

NoPayload == [syncType |-> "none", items |-> <<>>]

UniqueIds(q) == \A i, j \in 1..Len(q) : i # j => q[i].id # q[j].id
ItemSeqs(S) == UNION {[1..k -> S] : k \in 0..Cardinality(EventIds)}
IdsOf(q) == {q[i].id : i \in 1..Len(q)}
NonDecreasing(q) ==
    \A i, j \in 1..Len(q) : i < j => StartKey(q[i]) <= StartKey(q[j])

\* lists the `events` state can hold: what a sort over distinct events left
Caches == {q \in ItemSeqs(ConfirmedItems) : UniqueIds(q) /\ NonDecreasing(q)}
\* index.js:317-322  items of a full answer: live events ordered by start
FullResults ==
    {q \in ItemSeqs(ConfirmedItems) : UniqueIds(q) /\ NonDecreasing(q)}
\* index.js:310-313  items of a delta answer: each changed event once, a
\* deleted one as a cancelled item, in no particular order
DeltaResults ==
    {q \in ItemSeqs(ConfirmedItems \cup CancelledItems) : UniqueIds(q)}
Payloads ==
    [syncType : {"full"}, items : FullResults]
       \cup [syncType : {"delta"}, items : DeltaResults]

\* ------------------------------------------- the external calendar service
LiveIds(cal) == {id \in EventIds : cal[id] # NoStart}
ItemOf(cal, id) ==
    IF cal[id] = NoStart
    THEN [id |-> id, start |-> NoStart, status |-> "cancelled"]
    ELSE [id |-> id, start |-> cal[id], status |-> "confirmed"]

\* the answers that list the events `ids`, each once; by ascending start
\* when `byStart`, in any order otherwise
ItemsInOrder(cal, ids, byStart) ==
    LET k == Cardinality(ids) IN
    {[i \in 1..k |-> ItemOf(cal, o[i])] :
        o \in {f \in [1..k -> ids] :
                  /\ \A i, j \in 1..k : i # j => f[i] # f[j]
                  /\ byStart => \A i \in 1..k - 1 : cal[f[i]] <= cal[f[i + 1]]}}

\* index.js:317-322  what events.list answers without a sync token: every
\* live event, ordered by start, equal starts in any order
FullItemsOf(cal) == ItemsInOrder(cal, LiveIds(cal), TRUE)

\* index.js:310-313  what events.list answers to a sync token: every event
\* that differs from the calendar the token was issued for, in any order
DeltaItemsOf(cal, snap) ==
    ItemsInOrder(cal, {id \in EventIds : cal[id] # snap[id]}, FALSE)

ListItemsOf(cal, snaps, tok) ==
    IF tok = NoToken THEN FullItemsOf(cal) ELSE DeltaItemsOf(cal, snaps[tok])

\* the /api/events route has not answered yet
NoResponse ==
    [user |-> NoUser, status |-> 0, syncType |-> "none",
     error |-> 0, thrown |-> 0, watchFailed |-> FALSE]

\* ------------------------------------------------------------------ Init
Init ==
    /\ syncTokens = [u \in Users |-> NoToken]
    /\ channelUserMap = [c \in ChannelIds |-> NoUser]
    /\ sseClients = [u \in Users |-> NoStream]
    /\ streams = <<>>
    /\ requests = <<>>
    /\ nextToken = 1
    /\ notifyAck = 0
    /\ expiredLast = [u \in Users |-> FALSE]
    /\ closedSinceOpen = [u \in Users |-> FALSE]
    /\ lastResponse = NoResponse
    /\ loggedOut = [u \in Users |-> FALSE]
    /\ clientEvents = <<>>
    /\ payload = NoPayload
    /\ applied = 0
    /\ baseEvents = <<>>
    /\ mergedOnce = <<>>
    /\ calendar = [u \in Users |-> [id \in EventIds |-> NoStart]]
    /\ snapshots = <<>>
    /\ inbox = {}
    /\ freshApplied = FALSE

\* ------------------------------------------------------ GET /api/events/sse
\* index.js:48-61
OpenSSE(u) ==
    /\ Len(streams) < MaxStreams
    /\ streams' = Append(streams,
          [user |-> u, ended |-> FALSE, connected |-> TRUE,
           written |-> <<"welcome">>])
    /\ sseClients' = [sseClients EXCEPT ![u] = Len(streams) + 1]
    /\ closedSinceOpen' = [closedSinceOpen EXCEPT ![u] = FALSE]
    /\ UNCHANGED <<syncTokens, channelUserMap, requests, nextToken,
                   notifyAck, expiredLast, lastResponse>>
    /\ loggedOut' = [loggedOut EXCEPT ![u] = FALSE]
    /\ UNCHANGED mergeVars
    /\ UNCHANGED worldVars

\* index.js:63-67  req.on('close') of the connection that opened stream s
CloseSSE(s) ==
    /\ s \in 1..Len(streams)
    /\ streams[s].connected
    /\ sseClients' = CloseDirectory(sseClients, streams[s].user)
    /\ streams' = [streams EXCEPT ![s].connected = FALSE, ![s].ended = TRUE]
    /\ closedSinceOpen' = [closedSinceOpen EXCEPT ![streams[s].user] = TRUE]
    /\ UNCHANGED <<syncTokens, channelUserMap, requests, nextToken,
                   notifyAck, expiredLast, lastResponse>>
    /\ UNCHANGED loggedOut
    /\ UNCHANGED mergeVars
    /\ UNCHANGED worldVars

\* ------------------------------------------------- POST /api/notifications
\* index.js:72-100.  A write to a response that was already ended fails
\* (ERR_STREAM_WRITE_AFTER_END) instead of reaching res.status(200).
Notify(ch, st) ==
    LET t == SseTarget(channelUserMap, sseClients, ch, st) IN
    /\ IF t = NoStream
       THEN /\ streams' = streams
            /\ notifyAck' = 200
       ELSE /\ WrittenFrom(streams, 1) - Len(streams) < MaxWrites
            /\ IF streams[t].ended
               THEN /\ streams' = streams
                    /\ notifyAck' = 500
               ELSE /\ streams' = [streams EXCEPT
                                    ![t].written = streams[t].written \o WakeUp]
                    /\ notifyAck' = 200
    /\ UNCHANGED <<syncTokens, channelUserMap, sseClients, requests,
                   nextToken, expiredLast, closedSinceOpen, lastResponse>>
    /\ UNCHANGED loggedOut
    /\ UNCHANGED mergeVars
    /\ UNCHANGED worldVars

\* ---------------------------------------------------------- GET /api/events
\* index.js:266  uuidv4(): an identifier no earlier call has drawn
NewChannelIdReused(reqs) == 1
NewChannelId(reqs) == Len(reqs) + 1

NewRequest(u) ==
    [user |-> u, stage |-> "watch",
     ledgerAtCall |-> syncTokens[u],
     afterExpired |-> expiredLast[u],
     currentSyncToken |-> syncTokens[u],
     channelId |-> NewChannelId(requests),
     syncType |-> "none", fetchToken |-> NoToken,
     respCode |-> 0, nextSyncToken |-> NoToken,
     items |-> <<>>, fromClient |-> FALSE, fresh |-> TRUE]

\* a call that has returned keeps nothing but its place in the sequence
Returned(req) ==
    [req EXCEPT !.stage = "done", !.user = NoUser, !.ledgerAtCall = NoToken,
                !.afterExpired = FALSE, !.currentSyncToken = NoToken,
                !.syncType = "none", !.fetchToken = NoToken,
                !.respCode = 0, !.nextSyncToken = NoToken,
                !.items = <<>>, !.fromClient = FALSE, !.fresh = TRUE]

InFlight(r) == r \in 1..Len(requests) /\ requests[r].stage # "done"

\* index.js:147-152, index.js:298-305, 255-279: read the token, draw a
\* channel id, send events.watch and suspend
StartReconcile(u) ==
    /\ Len(requests) < MaxRequests
    /\ requests' = Append(requests, NewRequest(u))
    /\ UNCHANGED <<syncTokens, channelUserMap, sseClients, streams,
                   nextToken, notifyAck, expiredLast, closedSinceOpen,
                   lastResponse>>
    /\ loggedOut' = [loggedOut EXCEPT ![u] = FALSE]
    /\ UNCHANGED mergeVars
    /\ UNCHANGED worldVars

\* index.js:281-284, 307-323: events.watch resolved; record the binding,
\* choose the fetch, send events.list and suspend
WatchOk(r) ==
    /\ r \in 1..Len(requests)
    /\ requests[r].stage = "watch"
    /\ channelUserMap' = [channelUserMap EXCEPT
                            ![requests[r].channelId] = requests[r].user]
    /\ requests' = [requests EXCEPT
          ![r].stage = "list",
          ![r].syncType = FetchKind(requests[r].currentSyncToken),
          ![r].fetchToken = FetchToken(requests[r].currentSyncToken)]
    /\ UNCHANGED <<syncTokens, sseClients, streams, nextToken, notifyAck,
                   expiredLast, closedSinceOpen, lastResponse>>
    /\ UNCHANGED loggedOut
    /\ UNCHANGED mergeVars
    /\ UNCHANGED worldVars

\* the answer of the /api/events route when listEvents throws error `code`
\* (index.js:336-346, index.js:154-157)
ErrorResponse(r, code, watchFailed) ==
    [user |-> requests[r].user, status |-> 500,
     syncType |-> requests[r].syncType, error |-> SurfacedError(code),
     thrown |-> code, watchFailed |-> watchFailed]

\* index.js:285-288, 336-346, index.js:154-157: events.watch rejected;
\* setupWebhook rethrows, listEvents' catch rethrows, the route answers 500
WatchFail(r, code) ==
    /\ r \in 1..Len(requests)
    /\ requests[r].stage = "watch"
    /\ code \in WatchErrorCodes
    /\ syncTokens' = OnErrorLedger(syncTokens, requests[r].user, code)
    /\ lastResponse' = ErrorResponse(r, code, TRUE)
    /\ requests' = [requests EXCEPT ![r] = Returned(requests[r])]
    /\ expiredLast' = [expiredLast EXCEPT ![requests[r].user] =
                          (code = ExpiredCode)]
    /\ UNCHANGED <<channelUserMap, sseClients, streams, nextToken,
                   notifyAck, closedSinceOpen>>
    /\ UNCHANGED loggedOut
    /\ UNCHANGED mergeVars
    /\ UNCHANGED worldVars

\* the external source answers events.list: a page with a fresh
\* nextSyncToken, a page without one, or an error; 410 only answers a
\* request that presented a sync token
ExtList(r, code, withToken) ==
    /\ r \in 1..Len(requests)
    /\ requests[r].stage = "list"
    /\ code \in ListErrorCodes \cup {0}
    /\ code = ExpiredCode => requests[r].fetchToken # NoToken
    /\ code # 0 => ~withToken
    /\ \E q \in ListItemsOf(calendar[requests[r].user], snapshots,
                             requests[r].fetchToken) :
          requests' = [requests EXCEPT
             ![r].stage = "resp",
             ![r].respCode = code,
             ![r].nextSyncToken = IF withToken THEN nextToken ELSE NoToken,
             ![r].items = IF code = 0 THEN q ELSE <<>>]
    /\ nextToken' = IF withToken THEN nextToken + 1 ELSE nextToken
    /\ snapshots' = IF withToken
                    THEN Append(snapshots, calendar[requests[r].user])
                    ELSE snapshots
    /\ UNCHANGED <<syncTokens, channelUserMap, sseClients, streams,
                   notifyAck, expiredLast, closedSinceOpen, lastResponse>>
    /\ UNCHANGED loggedOut
    /\ UNCHANGED mergeVars
    /\ UNCHANGED <<calendar, inbox, freshApplied>>

\* index.js:325-334, index.js:153: events.list resolved
ListOk(r) ==
    /\ r \in 1..Len(requests)
    /\ requests[r].stage = "resp"
    /\ requests[r].respCode = 0
    /\ syncTokens' = StoreToken(syncTokens, requests[r].user,
                                requests[r].nextSyncToken)
    /\ lastResponse' =
          [user |-> requests[r].user, status |-> 200,
           syncType |-> requests[r].syncType, error |-> 0, thrown |-> 0,
           watchFailed |-> FALSE]
    /\ requests' = [requests EXCEPT ![r] = Returned(requests[r])]
    /\ expiredLast' = [expiredLast EXCEPT ![requests[r].user] = FALSE]
    /\ UNCHANGED <<channelUserMap, sseClients, streams, nextToken,
                   notifyAck, closedSinceOpen>>
    /\ UNCHANGED loggedOut
    /\ UNCHANGED mergeVars
    /\ inbox' = IF requests[r].fromClient
                THEN inbox \cup {[req |-> r,
                                  syncType |-> requests[r].syncType,
                                  items |-> requests[r].items,
                                  fresh |-> requests[r].fresh,
                                  token |-> requests[r].fetchToken]}
                ELSE inbox
    /\ UNCHANGED <<calendar, snapshots, freshApplied>>

\* index.js:336-346, index.js:154-157: events.list rejected
ListFail(r) ==
    /\ r \in 1..Len(requests)
    /\ requests[r].stage = "resp"
    /\ requests[r].respCode # 0
    /\ syncTokens' = OnErrorLedger(syncTokens, requests[r].user,
                                   requests[r].respCode)
    /\ lastResponse' = ErrorResponse(r, requests[r].respCode, FALSE)
    /\ requests' = [requests EXCEPT ![r] = Returned(requests[r])]
    /\ expiredLast' = [expiredLast EXCEPT ![requests[r].user] =
                          (requests[r].respCode = ExpiredCode)]
    /\ UNCHANGED <<channelUserMap, sseClients, streams, nextToken,
                   notifyAck, closedSinceOpen>>
    /\ UNCHANGED loggedOut
    /\ UNCHANGED mergeVars
    /\ UNCHANGED worldVars

\* ---------------------------------------------------------- POST /api/logout
\* index.js:130-135  req.user?.id, read in the callback of req.logout, which
\* has already cleared req.user
LogoutUserId(u) == NoUser

\* index.js:129-144
Logout(u) ==
    LET userId == LogoutUserId(u) IN
    /\ IF userId # NoUser /\ sseClients[userId] # NoStream
       THEN /\ streams' = [streams EXCEPT ![sseClients[userId]].ended = TRUE]
            /\ sseClients' = [sseClients EXCEPT ![userId] = NoStream]
       ELSE UNCHANGED <<streams, sseClients>>
    /\ loggedOut' = [loggedOut EXCEPT ![u] = TRUE]
    /\ UNCHANGED mergeVars
    /\ UNCHANGED worldVars
    /\ UNCHANGED <<syncTokens, channelUserMap, requests, nextToken,
                   notifyAck, expiredLast, closedSinceOpen, lastResponse>>

\* ------------------------------------------------------------------ Next
\* the /api/events route alone
SyncNext ==
    \/ \E u \in Users : StartReconcile(u)
    \/ \E r \in 1..MaxRequests : WatchOk(r)
    \/ \E r \in 1..MaxRequests, code \in WatchErrorCodes : WatchFail(r, code)
    \/ \E r \in 1..MaxRequests, code \in ListErrorCodes \cup {0},
          withToken \in BOOLEAN : ExtList(r, code, withToken)
    \/ \E r \in 1..MaxRequests : ListOk(r)
    \/ \E r \in 1..MaxRequests : ListFail(r)

SyncSpec == Init /\ [][SyncNext]_vars

\* the stream, notification and /api/events routes
Next ==
    \/ \E u \in Users : OpenSSE(u)
    \/ \E s \in 1..MaxStreams : CloseSSE(s)
    \/ \E ch \in SignalChannels, st \in ResourceStates : Notify(ch, st)
    \/ \E u \in Users : Len(requests) < MaxLiveRequests /\ StartReconcile(u)
    \/ \E r \in 1..MaxRequests : WatchOk(r)
    \/ \E r \in 1..MaxRequests, code \in WatchErrorCodes : WatchFail(r, code)
    \/ \E r \in 1..MaxRequests, code \in ListErrorCodes \cup {0},
          withToken \in BOOLEAN : ExtList(r, code, withToken)
    \/ \E r \in 1..MaxRequests : ListOk(r)
    \/ \E r \in 1..MaxRequests : ListFail(r)

Spec == Init /\ [][Next]_vars

\* the same with the logout route
SessionNext ==
    \/ Next
    \/ \E u \in Users : Logout(u)

SessionSpec == Init /\ [][SessionNext]_vars

\* ------------------------------------------ fetchEvents' continuation alone
serverVars == <<syncTokens, channelUserMap, sseClients, streams, requests,
                nextToken, notifyAck, expiredLast, closedSinceOpen,
                lastResponse, loggedOut>>

\* any list the browser can hold, and any answer the route can give
MergeInit ==
    /\ syncTokens = [u \in Users |-> NoToken]
    /\ channelUserMap = [c \in ChannelIds |-> NoUser]
    /\ sseClients = [u \in Users |-> NoStream]
    /\ streams = <<>>
    /\ requests = <<>>
    /\ nextToken = 1
    /\ notifyAck = 0
    /\ expiredLast = [u \in Users |-> FALSE]
    /\ closedSinceOpen = [u \in Users |-> FALSE]
    /\ lastResponse = NoResponse
    /\ loggedOut = [u \in Users |-> FALSE]
    /\ clientEvents \in Caches
    /\ payload \in Payloads
    /\ applied = 0
    /\ baseEvents = clientEvents
    /\ mergedOnce = <<>>
    /\ calendar = [u \in Users |-> [id \in EventIds |-> NoStart]]
    /\ snapshots = <<>>
    /\ inbox = {}
    /\ freshApplied = FALSE

\* App.jsx:43-63 run on `payload`, at most twice
ProcessPayload ==
    /\ applied < 2
    /\ clientEvents' = ApplyPayload(clientEvents, payload)
    /\ applied' = applied + 1
    /\ mergedOnce' = IF applied = 0 THEN clientEvents' ELSE mergedOnce
    /\ UNCHANGED <<payload, baseEvents>>
    /\ UNCHANGED serverVars
    /\ UNCHANGED worldVars

MergeNext == ProcessPayload

MergeSpec == MergeInit /\ [][MergeNext]_vars

\* ------------------------------------- one browser against a live calendar
ClientUser == "u1"

\* App.jsx:38-42, index.js:147-152, 298-305: fetchEvents sends GET /api/events
FetchEvents ==
    /\ Len(requests) < MaxFetches
    /\ requests' = Append(requests,
                          [NewRequest(ClientUser) EXCEPT !.fromClient = TRUE])
    /\ UNCHANGED <<syncTokens, channelUserMap, sseClients, streams,
                   nextToken, notifyAck, expiredLast, closedSinceOpen,
                   lastResponse>>
    /\ loggedOut' = [loggedOut EXCEPT ![ClientUser] = FALSE]
    /\ UNCHANGED mergeVars
    /\ UNCHANGED worldVars

\* App.jsx:42-63: an answer arrives and is folded into `events`
ClientReceive(r) ==
    \E p \in inbox :
       /\ p.req = r
       /\ clientEvents' = ApplyPayload(clientEvents, p)
       /\ inbox' = inbox \ {p}
       /\ freshApplied' = (freshApplied \/ p.fresh)
    /\ UNCHANGED <<payload, applied, baseEvents, mergedOnce>>
    /\ UNCHANGED serverVars
    /\ UNCHANGED <<calendar, snapshots>>

\* the calendar's owner creates, moves or deletes an event elsewhere
ExternalChange(id, start) ==
    /\ calendar[ClientUser][id] # start
    /\ calendar' = [calendar EXCEPT ![ClientUser][id] = start]
    /\ requests' = [r \in 1..Len(requests) |->
                       [requests[r] EXCEPT !.fresh = ~InFlight(r)]]
    /\ inbox' = {[p EXCEPT !.fresh = FALSE] : p \in inbox}
    /\ freshApplied' = FALSE
    /\ UNCHANGED <<syncTokens, channelUserMap, sseClients, streams,
                   nextToken, notifyAck, expiredLast, closedSinceOpen,
                   lastResponse, loggedOut>>
    /\ UNCHANGED mergeVars
    /\ UNCHANGED snapshots

ConvergeNext ==
    \/ FetchEvents
    \/ \E r \in 1..MaxRequests : WatchOk(r)
    \/ \E r \in 1..MaxRequests, withToken \in BOOLEAN : ExtList(r, 0, withToken)
    \/ \E r \in 1..MaxRequests : ListOk(r)
    \/ \E r \in 1..MaxRequests : ClientReceive(r)
    \/ \E id \in EventIds, start \in {NoStart} \cup Starts :
          ExternalChange(id, start)

ConvergeSpec == Init /\ [][ConvergeNext]_vars

\* ------------------------------- the same browser, reloaded or logged out
\* App.jsx:38-42: fetchEvents run once the previous run has finished
NextFetch ==
    /\ \A r \in 1..Len(requests) : ~InFlight(r)
    /\ inbox = {}
    /\ FetchEvents

\* App.jsx:8-9, 24-35, 96-100: the page is loaded anew: `events` starts
\* empty and the answers the old page was waiting for reach nobody
PageLoad ==
    /\ clientEvents' = <<>>
    /\ inbox' = {}
    /\ requests' = [r \in 1..Len(requests) |->
                       [requests[r] EXCEPT !.fromClient = FALSE]]
    /\ freshApplied' = FALSE
    /\ UNCHANGED <<payload, applied, baseEvents, mergedOnce>>
    /\ UNCHANGED <<syncTokens, channelUserMap, sseClients, streams,
                   nextToken, notifyAck, expiredLast, closedSinceOpen,
                   lastResponse, loggedOut>>
    /\ UNCHANGED <<calendar, snapshots>>

\* App.jsx:110-118, index.js:129-144: POST /api/logout, then setEvents([])
HandleLogout ==
    LET userId == LogoutUserId(ClientUser) IN
    /\ IF userId # NoUser /\ sseClients[userId] # NoStream
       THEN /\ streams' = [streams EXCEPT ![sseClients[userId]].ended = TRUE]
            /\ sseClients' = [sseClients EXCEPT ![userId] = NoStream]
       ELSE UNCHANGED <<streams, sseClients>>
    /\ loggedOut' = [loggedOut EXCEPT ![ClientUser] = TRUE]
    /\ clientEvents' = <<>>
    /\ UNCHANGED <<payload, applied, baseEvents, mergedOnce>>
    /\ UNCHANGED <<syncTokens, channelUserMap, requests, nextToken,
                   notifyAck, expiredLast, closedSinceOpen, lastResponse>>
    /\ UNCHANGED worldVars

ReloadNext ==
    \/ NextFetch
    \/ \E r \in 1..MaxRequests : WatchOk(r)
    \/ \E r \in 1..MaxRequests, withToken \in BOOLEAN : ExtList(r, 0, withToken)
    \/ \E r \in 1..MaxRequests : ListOk(r)
    \/ \E r \in 1..MaxRequests : ClientReceive(r)
    \/ \E id \in EventIds, start \in {NoStart} \cup Starts :
          ExternalChange(id, start)
    \/ PageLoad
    \/ HandleLogout

ReloadSpec == Init /\ [][ReloadNext]_vars

\* --------------------------- channels issued call after call, and signals
\* a browser that sends GET /api/events only after the last one was answered
NextReconcile(u) ==
    /\ \A r \in 1..Len(requests) : ~InFlight(r)
    /\ StartReconcile(u)

ChannelNext ==
    \/ \E u \in Users : OpenSSE(u)
    \/ \E u \in Users : NextReconcile(u)
    \/ \E r \in 1..MaxRequests : WatchOk(r)
    \/ \E r \in 1..MaxRequests, withToken \in BOOLEAN : ExtList(r, 0, withToken)
    \/ \E r \in 1..MaxRequests : ListOk(r)
    \/ \E ch \in ChannelIds, st \in ResourceStates : Notify(ch, st)

ChannelSpec == Init /\ [][ChannelNext]_vars

\* ----------------------- every route, one GET /api/events after the other
LedgerNext ==
    \/ \E u \in Users : Len(streams) < MaxLedgerStreams /\ OpenSSE(u)
    \/ \E s \in 1..MaxStreams : CloseSSE(s)
    \/ \E ch \in SignalChannels, st \in ResourceStates : Notify(ch, st)
    \/ \E u \in Users : Len(requests) < MaxFetches /\ NextReconcile(u)
    \/ \E r \in 1..MaxRequests : WatchOk(r)
    \/ \E r \in 1..MaxRequests, code \in WatchErrorCodes : WatchFail(r, code)
    \/ \E r \in 1..MaxRequests, code \in ListErrorCodes \cup {0},
          withToken \in BOOLEAN : ExtList(r, code, withToken)
    \/ \E r \in 1..MaxRequests : ListOk(r)
    \/ \E r \in 1..MaxRequests : ListFail(r)

LedgerSpec == Init /\ [][LedgerNext]_vars

\* ---------------------------------------------------------------- claims
ReqIds == 1..Len(requests)
Fetching(r) == requests[r].stage \in {"list", "resp"}
KindFor(ledgerTok) == IF ledgerTok = NoToken THEN "full" ELSE "delta"

\* C1: the fetch a listEvents call issues is decided by the ledger entry it
\* found when it was called: no entry, a full fetch without a sync token;
\* an entry, a delta fetch presenting exactly that token; and a successful
\* call reports the same kind as syncType.
FetchKindFromLedger ==
    [][\A r \in ReqIds :
         /\ (requests[r].stage = "watch" /\ requests'[r].stage = "list") =>
               /\ requests'[r].syncType = KindFor(requests[r].ledgerAtCall)
               /\ requests'[r].fetchToken = requests[r].ledgerAtCall
         /\ (Fetching(r) /\ requests'[r].stage = "done"
               /\ lastResponse'.status = 200) =>
               lastResponse'.syncType = KindFor(requests[r].ledgerAtCall)]_vars

DeltaFetchIssued ==
    \E r \in ReqIds :
       /\ requests[r].stage = "resp"
       /\ requests[r].ledgerAtCall # NoToken
       /\ requests[r].syncType = "delta"
       /\ lastResponse.status = 200 /\ lastResponse.syncType = "full"

\* C2: once a listEvents call of user u has returned on a 410, u has no
\* ledger entry, the route has answered with an error, and a call of u
\* that starts before any other call of u returns fetches in full.
TokenClearOnExpiry ==
    /\ \A u \in Users : expiredLast[u] => syncTokens[u] = NoToken
    /\ lastResponse.thrown = ExpiredCode =>
          lastResponse.status = 500 /\ lastResponse.error # 0
    /\ \A r \in ReqIds :
          (requests[r].afterExpired /\ Fetching(r)) =>
             requests[r].syncType = "full" /\ requests[r].fetchToken = NoToken

FullAfterExpiry ==
    \E r \in ReqIds :
       /\ requests[r].afterExpired /\ Fetching(r)
       /\ requests[r].syncType = "full"
       /\ lastResponse.thrown = ExpiredCode
       /\ syncTokens[requests[r].user] = NoToken

\* C3: the step in which a listEvents call returns on an error other than
\* 410 (a rejected events.watch or events.list) leaves every ledger entry
\* as it was, and the route answers 500 carrying that same error.
OtherErrorsKeepToken ==
    [][\A r \in ReqIds :
         (InFlight(r) /\ requests'[r].stage = "done"
            /\ lastResponse'.status # 200
            /\ lastResponse'.thrown # ExpiredCode) =>
               /\ syncTokens' = syncTokens
               /\ lastResponse'.status = 500
               /\ lastResponse'.thrown \in TransportCodes
               /\ lastResponse'.error = lastResponse'.thrown]_vars

TokenKeptAfterFailure ==
    /\ lastResponse.status = 500
    /\ lastResponse.thrown \in TransportCodes
    /\ lastResponse.syncType = "delta"
    /\ syncTokens[lastResponse.user] # NoToken

\* C4: a listEvents call whose events.watch was rejected still issues its
\* events.list and the route returns that result.
SubscriptionFailureDoesNotAbort ==
    lastResponse.watchFailed =>
       lastResponse.status = 200 /\ lastResponse.syncType # "none"

\* C5: no two listEvents calls of the same user are in flight together.
PerUserSerialization ==
    \A r1, r2 \in ReqIds :
       (r1 # r2 /\ InFlight(r1) /\ InFlight(r2)) =>
          requests[r1].user # requests[r2].user

\* C6: every POST /api/notifications is answered 200, whatever the signal,
\* the channel and the directory hold, and one whose channel has no binding
\* writes to no response.
DispatcherDropSafety ==
    [][\A ch \in SignalChannels, st \in ResourceStates :
         \/ /\ notifyAck' = 200
            /\ channelUserMap[ch] = NoUser => streams' = streams
         \/ ~Notify(ch, st)]_vars

UnknownChannelAcked ==
    /\ notifyAck = 200
    /\ \E u \in Users : sseClients[u] # NoStream
    /\ \A ch \in ChannelIds : channelUserMap[ch] = NoUser
    /\ \A s \in 1..Len(streams) : streams[s].written = <<"welcome">>

\* C7: a notification with resource state 'sync' changes no response, no
\* ledger entry, no binding and no directory entry; it is only answered 200.
SyncHandshakeNoOp ==
    [][\A ch \in SignalChannels :
         \/ /\ UNCHANGED <<streams, syncTokens, channelUserMap, sseClients,
                           requests>>
            /\ notifyAck' = 200
         \/ ~Notify(ch, "sync")]_vars

HandshakeOnBoundChannel ==
    /\ notifyAck = 200
    /\ \E ch \in ChannelIds :
          /\ channelUserMap[ch] # NoUser
          /\ sseClients[channelUserMap[ch]] # NoStream
          /\ streams[sseClients[channelUserMap[ch]]].written = <<"welcome">>

\* C8: a change notification on a channel bound to a user who has a
\* directory entry appends exactly one calendar_update to that entry's
\* response, changes no other response and starts or advances no fetch.
WakeUpOnlyOwner ==
    [][\A ch \in SignalChannels, st \in ResourceStates \ {"sync"} :
         (/\ channelUserMap[ch] # NoUser
          /\ sseClients[channelUserMap[ch]] # NoStream
          /\ Notify(ch, st)) =>
            LET s == sseClients[channelUserMap[ch]] IN
            /\ streams'[s].written =
                  Append(streams[s].written, "calendar_update")
            /\ \A s2 \in 1..Len(streams) : s2 # s => streams'[s2] = streams[s2]
            /\ UNCHANGED <<requests, syncTokens, nextToken>>]_vars

OwnerWokenOtherSilent ==
    \E s1, s2 \in 1..Len(streams) :
       /\ streams[s1].user # streams[s2].user
       /\ sseClients[streams[s1].user] = s1
       /\ sseClients[streams[s2].user] = s2
       /\ streams[s1].written = <<"welcome", "calendar_update">>
       /\ streams[s2].written = <<"welcome">>

\* C9: a response that has been replaced in the directory by a later one
\* of the same user has been ended.
SingleStreamInvariant ==
    \A s1, s2 \in 1..Len(streams) :
       (s1 < s2 /\ streams[s1].user = streams[s2].user) => streams[s1].ended

\* C10: the close handler removes the user's directory entry in its own
\* step, and from then until the user's next open no change notification
\* on any of the user's channels writes to a response.
DisconnectStopsWrites ==
    [][/\ \A s \in 1..Len(streams) :
            sseClients'[streams[s].user] = NoStream \/ ~CloseSSE(s)
       /\ \A u \in Users : closedSinceOpen[u] => sseClients[u] = NoStream
       /\ \A ch \in SignalChannels, st \in ResourceStates \ {"sync"} :
            (/\ channelUserMap[ch] # NoUser
             /\ closedSinceOpen[channelUserMap[ch]]
             /\ Notify(ch, st)) =>
               streams' = streams]_vars

ChangeAfterDisconnect ==
    /\ notifyAck = 200
    /\ \E ch \in ChannelIds :
          /\ channelUserMap[ch] # NoUser
          /\ closedSinceOpen[channelUserMap[ch]]
          /\ sseClients[channelUserMap[ch]] = NoStream
          /\ \E s \in 1..Len(streams) :
                /\ streams[s].user = channelUserMap[ch]
                /\ streams[s].ended
                /\ streams[s].written = <<"welcome">>

\* C11: a user who has logged out has no directory entry and no ledger
\* entry, so the user's next listEvents call fetches in full.
LogoutRemovesEntries ==
    \A u \in Users :
       loggedOut[u] => sseClients[u] = NoStream /\ syncTokens[u] = NoToken

\* C12: processing the same delta answer a second time leaves the list
\* exactly as the first processing left it.
MergeIdempotent ==
    (applied = 2 /\ payload.syncType = "delta") => clientEvents = mergedOnce

MergedTwiceOverBase ==
    /\ applied = 2 /\ payload.syncType = "delta"
    /\ Len(baseEvents) = 2 /\ Len(payload.items) = 2
    /\ \E i \in 1..2 : payload.items[i].status = "cancelled"
    /\ \E i \in 1..2 : payload.items[i].status = "confirmed"
    /\ clientEvents # baseEvents

\* C13: after a delta answer is processed, no cancelled item of it has its
\* id in the list, wherever the item stood in the answer and whether or not
\* the list held the id before.
CancelledAbsent ==
    (applied >= 1 /\ payload.syncType = "delta") =>
       \A i \in 1..Len(payload.items) :
          payload.items[i].status = "cancelled" =>
             payload.items[i].id \notin IdsOf(clientEvents)

CancelledWasPresent ==
    /\ applied = 1 /\ payload.syncType = "delta"
    /\ Len(payload.items) = 2
    /\ payload.items[2].status = "cancelled"
    /\ payload.items[2].id \in IdsOf(baseEvents)
    /\ payload.items[2].id \notin IdsOf(clientEvents)
    /\ Len(clientEvents) = 1

\* C14: after an answer of either kind is processed the list is ascending
\* by start, and events with equal starts stand in the order of their ids.
OrderedByStartThenId ==
    applied >= 1 =>
       \A i, j \in 1..Len(clientEvents) :
          i < j =>
             \/ StartKey(clientEvents[i]) < StartKey(clientEvents[j])
             \/ /\ StartKey(clientEvents[i]) = StartKey(clientEvents[j])
                /\ clientEvents[i].id = "a" /\ clientEvents[j].id = "b"

\* C15: once the browser has processed the answer to a GET /api/events that
\* began after the latest calendar change, and no call or answer is still
\* under way, its list holds exactly the calendar's live events, each with
\* its current start.
CacheIsCalendar ==
    /\ UniqueIds(clientEvents)
    /\ IdsOf(clientEvents) = LiveIds(calendar[ClientUser])
    /\ \A i \in 1..Len(clientEvents) :
          clientEvents[i].start = calendar[ClientUser][clientEvents[i].id]

EventualConvergence ==
    (/\ freshApplied
     /\ inbox = {}
     /\ \A r \in ReqIds : ~InFlight(r)) => CacheIsCalendar

\* C16: no user has two bound channels, the older binding being replaced
\* when a later channel is bound, so a change signal on the older channel
\* writes to no response.
StaleChannelDropped ==
    [][\A c1, c2 \in ChannelIds :
         (c1 < c2 /\ channelUserMap'[c2] # NoUser) =>
            /\ channelUserMap'[c1] # channelUserMap'[c2]
            /\ (channelUserMap[c1] = channelUserMap[c2]
                  /\ Notify(c1, "exists")) => streams' = streams]_vars

\* C17: the step in which a listEvents call of user u returns a result
\* leaves u's ledger entry equal to the nextSyncToken of the events.list
\* answer when the answer has one, and as it was when the answer has none;
\* an entry that was present is present afterwards.
SuccessStoresCarriedToken ==
    [][\A r \in ReqIds :
         (requests[r].stage = "resp" /\ requests[r].respCode = 0
            /\ requests'[r].stage = "done") =>
               LET u == requests[r].user
                   carried == requests[r].nextSyncToken
               IN /\ carried # NoToken => syncTokens'[u] = carried
                  /\ carried = NoToken => syncTokens'[u] = syncTokens[u]
                  /\ syncTokens[u] # NoToken => syncTokens'[u] # NoToken]_vars

TokenKeptWithoutNewOne ==
    /\ lastResponse.status = 200
    /\ lastResponse.syncType = "delta"
    /\ nextToken = 2
    /\ syncTokens[lastResponse.user] = 1

\* C18: whenever a returning listEvents call of user u stores a token, its
\* events.list was sent with the token u's ledger entry holds at that
\* moment, or in full while the entry is still absent.
NoLastWriterWins ==
    [][\A r \in ReqIds :
         (requests[r].stage = "resp" /\ requests[r].respCode = 0
            /\ requests[r].nextSyncToken # NoToken
            /\ requests'[r].stage = "done") =>
               requests[r].fetchToken = syncTokens[requests[r].user]]_vars

\* C19: the step in which a call's events.watch succeeds finds the call's
\* channel id bound to nobody and leaves it bound to the call's user, and
\* every call whose events.list has been sent has its channel id bound to
\* its user.
ChannelIssuedBeforeFetch ==
    [][\A r \in ReqIds :
         /\ (requests[r].stage = "watch" /\ requests'[r].stage = "list") =>
               /\ channelUserMap[requests[r].channelId] = NoUser
               /\ channelUserMap'[requests[r].channelId] = requests[r].user
         /\ requests'[r].stage \in {"list", "resp"} =>
               /\ requests[r].stage \in {"watch", "list", "resp"}
               /\ channelUserMap'[requests'[r].channelId] = requests'[r].user]_vars

SecondChannelBound ==
    \E r \in ReqIds :
       /\ requests[r].stage = "list"
       /\ channelUserMap[requests[r].channelId] = requests[r].user
       /\ \E c \in ChannelIds : c # requests[r].channelId
                                  /\ channelUserMap[c] = requests[r].user

\* C20: a step changes the ledger entry of user u only if it is the return
\* of a listEvents call of u; signals, stream opens, stream closes and the
\* calls of other users leave it as it was.
LedgerOwnedByReconcile ==
    [][\A u \in Users :
         syncTokens'[u] # syncTokens[u] =>
            \E r \in ReqIds :
               /\ requests[r].stage = "resp"
               /\ requests[r].user = u
               /\ requests'[r].stage = "done"]_vars

OtherUserReconciledTokenKept ==
    /\ lastResponse.status = 200
    /\ \E u \in Users :
          /\ u # lastResponse.user
          /\ syncTokens[u] # NoToken
          /\ sseClients[u] # NoStream
          /\ notifyAck = 200

\* C21: after a full answer is processed the list holds exactly the items
\* of the answer, each once, and nothing of the list it replaced; after a
\* delta answer is processed every event of the earlier list whose id the
\* answer does not name is still in the list, unchanged.
ElementsOf(q) == {q[i] : i \in 1..Len(q)}

FullReplacesDeltaKeeps ==
    applied >= 1 =>
       IF payload.syncType = "full"
       THEN /\ ElementsOf(mergedOnce) = ElementsOf(payload.items)
            /\ Len(mergedOnce) = Len(payload.items)
       ELSE \A i \in 1..Len(baseEvents) :
               baseEvents[i].id \notin IdsOf(payload.items) =>
                  baseEvents[i] \in ElementsOf(mergedOnce)

FullDroppedOldEvents ==
    /\ applied = 1 /\ payload.syncType = "full"
    /\ Len(baseEvents) = 2 /\ Len(payload.items) = 1
    /\ payload.items[1] \notin ElementsOf(baseEvents)
    /\ clientEvents = payload.items

\* C22: a user's most recently opened response, while its connection is
\* still up, is the user's directory entry, whichever of the user's earlier
\* connections have closed since; a change signal on the user's channel is
\* therefore written to it.
ReplacementSurvivesOldClose ==
    \A s \in 1..Len(streams) :
       (/\ streams[s].connected
        /\ \A s2 \in 1..Len(streams) :
              streams[s2].user = streams[s].user => s2 <= s) =>
          sseClients[streams[s].user] = s

\* C23: a delta answer is merged only into a list that holds exactly the
\* events of the calendar the fetch's token was issued for, and the list
\* left by an answer to a call that began after the latest calendar change
\* holds exactly the calendar's events, also when the page was loaded anew
\* or logged out in between.
CacheReflects(q, cal) ==
    /\ UniqueIds(q)
    /\ IdsOf(q) = LiveIds(cal)
    /\ \A i \in 1..Len(q) : q[i].start = cal[q[i].id]

DeltaOnlyOntoItsBase ==
    [][\A p \in inbox :
         ClientReceive(p.req) =>
            /\ p.syncType = "delta" =>
                  CacheReflects(clientEvents, snapshots[p.token])
            /\ p.fresh => CacheReflects(clientEvents', calendar[ClientUser])]_vars

====
